---- MODULE Spec2Model ----
(***************************************************************************)
(* Model of bigFileAmountCompare.py: the command-line driver (main), the   *)
(* invoker (run_rsync_comparison), the parser/aggregator                   *)
(* (analyze_rsync_output) and the reporter (format_report).                *)
(*                                                                         *)
(* Text is modelled at character level: a Python str is a sequence of      *)
(* one-character strings, so that strip, startswith, "in", endswith,       *)
(* rstrip, pathlib's splitting and the ordering used by sorted() are       *)
(* computed the way the interpreter computes them.  Fixed label text of    *)
(* the report is kept as whole chunks.                                     *)
(***************************************************************************)
EXTENDS Integers, Sequences, FiniteSets, TLC

VARIABLES
    args,         \* the argparse namespace of this run
    pc,           \* position of the run
    exit_code,    \* process exit status, -1 while running
    uncaught,     \* TRUE when the process died of an exception no handler caught
    message,      \* what the run printed when it failed
    outcome,      \* what actually happened to the run (cause of termination)
    config,       \* content of CONFIG_FILE, None when the file is absent
    tmp_exists,   \* the NamedTemporaryFile is on disk
    tmp_created,  \* the temporary file was created at some point of the run
    tmp_content,  \* the lines written to the temporary file
    rsync_cmd,    \* the command line rsync was started with, None before
    report_file,  \* <<path, text>> of the report written, None before
    displayed,    \* the report was echoed to the console
    f_lines,      \* lines the loop of analyze_rsync_output has read so far
    dir_stats,    \* the dict being built, as its entries in insertion order
    report        \* the text returned by format_report

vars == <<args, pc, exit_code, uncaught, message, outcome, config, tmp_exists,
          tmp_created, tmp_content, rsync_cmd, report_file, displayed, f_lines,
          dir_stats, report>>

mainVars == <<exit_code, uncaught, message, outcome, config, tmp_exists,
              tmp_created, tmp_content, rsync_cmd, report_file, displayed>>

(***************************************************************************)
(* Bounds of the model                                                     *)
(***************************************************************************)
MaxLineLen == 2       \* length of the generated input lines
MaxLines == 2         \* lines read in the generated-input specification
MaxE2ELines == 5      \* lines read in the end-to-end specification
MaxSampleLines == 6   \* lines read in the sample-list specification

(***************************************************************************)
(* Python str operations                                                   *)
(***************************************************************************)
\* Characters in ascending code point order (only the relative order is used).
CodePoints ==
    <<" ", ".", "/", "0", "1", "2", "5", ":", "@", "a", "b", "c", "d", "e",
      "g", "h", "i", "l", "m", "n", "o", "p", "r", "s", "t", "u", "v", "x",
      "y", "z">>

Ord(c) == CHOOSE i \in 1..Len(CodePoints) : CodePoints[i] = c

\* str.__lt__: lexicographic by code point, a proper prefix sorts first.
RECURSIVE StrLess(_, _)
StrLess(s, t) ==
    IF t = <<>> THEN FALSE
    ELSE IF s = <<>> THEN TRUE
    ELSE IF Head(s) = Head(t) THEN StrLess(Tail(s), Tail(t))
    ELSE Ord(Head(s)) < Ord(Head(t))

startswith(s, p) == Len(s) >= Len(p) /\ SubSeq(s, 1, Len(p)) = p

endswith(s, p) == Len(s) >= Len(p) /\ SubSeq(s, Len(s) - Len(p) + 1, Len(s)) = p

\* p in s
contains(s, p) ==
    \E i \in 1..(Len(s) - Len(p) + 1) : SubSeq(s, i, i + Len(p) - 1) = p

RECURSIVE lstrip(_, _)
lstrip(s, c) ==
    IF s # <<>> /\ Head(s) = c THEN lstrip(Tail(s), c) ELSE s

RECURSIVE rstrip(_, _)
rstrip(s, c) ==
    IF s # <<>> /\ s[Len(s)] = c THEN rstrip(SubSeq(s, 1, Len(s) - 1), c) ELSE s

\* str.strip() for the whitespace of the model, the blank
strip(s) == rstrip(lstrip(s, " "), " ")

\* str(n) for n >= 0
Digits == <<"0", "1", "2", "3", "4", "5", "6", "7", "8", "9">>

RECURSIVE str(_)
str(n) ==
    IF n < 10 THEN <<Digits[n + 1]>>
    ELSE str(n \div 10) \o <<Digits[(n % 10) + 1]>>

(***************************************************************************)
(* pathlib.PurePosixPath(s).parts                                          *)
(***************************************************************************)
\* s.split("/")
RECURSIVE split(_, _)
split(s, cur) ==
    IF s = <<>> THEN <<cur>>
    ELSE IF Head(s) = "/" THEN <<cur>> \o split(Tail(s), <<>>)
    ELSE split(Tail(s), Append(cur, Head(s)))

IsComponent(x) == x # <<>> /\ x # <<".">>

\* the root pathlib keeps: "/" , or "//" for exactly two leading slashes
PathRoot(s) ==
    IF ~startswith(s, <<"/">>) THEN <<>>
    ELSE IF Len(s) - Len(lstrip(s, "/")) = 2 THEN <<"/", "/">>
    ELSE <<"/">>

PathParts(s) ==
    LET comps == SelectSeq(split(s, <<>>), IsComponent)
    IN  IF PathRoot(s) = <<>> THEN comps ELSE <<PathRoot(s)>> \o comps

(***************************************************************************)
(* analyze_rsync_output                                                    *)
(***************************************************************************)
SampleLimit == 5

NoisePrefixes ==
    { <<"r", "s", "y", "n", "c", ":">>,
      <<"s", "e", "n", "t">>,
      <<"t", "o", "t", "a", "l", " ", "s", "i", "z", "e">>,
      <<"r", "s", "y", "n", "c", " ", "e", "r", "r", "o", "r">>,
      <<"r", "e", "c", "e", "i", "v", "i", "n", "g">>,
      <<"s", "e", "n", "d", "i", "n", "g">> }

BytesPerSec == <<"b", "y", "t", "e", "s", "/", "s", "e", "c">>

\* the skip condition of the loop, on the stripped line
IsSkipped(line) ==
    \/ line = <<>>
    \/ \E p \in NoisePrefixes : startswith(line, p)
    \/ contains(line, BytesPerSec)

\* grouping one level deep only
ParentKeyOneLevel(line) ==
    LET parts == PathParts(rstrip(line, "/"))
    IN  IF Len(parts) >= 1 THEN parts[1] ELSE <<>>

\* parent_key of a stripped line; <<>> stands for the "continue" branch
ParentKey(line) ==
    LET parts == PathParts(rstrip(line, "/"))
    IN  IF Len(parts) >= 2 THEN parts[1] \o <<"/">> \o parts[2]
        ELSE IF Len(parts) = 1 THEN parts[1]
        ELSE <<>>

HasParts(line) == Len(PathParts(rstrip(line, "/"))) > 0

Keys(stats) == { stats[i].key : i \in 1..Len(stats) }

IndexOf(stats, k) == CHOOSE i \in 1..Len(stats) : stats[i].key = k

\* dir_stats[k] of the defaultdict: a missing key is inserted at the end
Touch(stats, k) ==
    IF k \in Keys(stats) THEN stats
    ELSE Append(stats, [key |-> k, files |-> 0, dirs |-> 0, items |-> <<>>])

\* the update without the is_dir test
CountItemAsFile(e, is_dir) == [e EXCEPT !.files = @ + 1]

\* the "Update statistics" branch
CountItem(e, is_dir) ==
    IF is_dir THEN [e EXCEPT !.dirs = @ + 1] ELSE [e EXCEPT !.files = @ + 1]

\* the limit test off by one
StoreSampleOffByOne(e, line) ==
    IF Len(e.items) <= SampleLimit THEN [e EXCEPT !.items = Append(@, line)]
    ELSE e

\* the "Store sample items" branch
StoreSample(e, line) ==
    IF Len(e.items) < SampleLimit THEN [e EXCEPT !.items = Append(@, line)]
    ELSE e

\* the loop body without the "else: continue" branch
AnalyzeLineNoContinue(stats, raw) ==
    LET line == strip(raw)
    IN  IF IsSkipped(line) THEN stats
        ELSE LET is_dir == endswith(line, <<"/">>)
                 k == ParentKey(line)
                 st == Touch(stats, k)
                 i == IndexOf(st, k)
             IN  [st EXCEPT ![i] = StoreSample(CountItem(st[i], is_dir), line)]

\* one iteration of the for loop, on the raw line
AnalyzeLine(stats, raw) ==
    LET line == strip(raw)
    IN  IF IsSkipped(line) THEN stats
        ELSE IF ~HasParts(line) THEN stats
        ELSE LET is_dir == endswith(line, <<"/">>)
                 k == ParentKey(line)
                 st == Touch(stats, k)
                 i == IndexOf(st, k)
             IN  [st EXCEPT ![i] = StoreSample(CountItem(st[i], is_dir), line)]

\* the whole loop over a file
RECURSIVE analyze_rsync_output(_)
analyze_rsync_output(file) ==
    IF file = <<>> THEN <<>>
    ELSE AnalyzeLine(analyze_rsync_output(SubSeq(file, 1, Len(file) - 1)),
                     file[Len(file)])

(***************************************************************************)
(* format_report                                                           *)
(***************************************************************************)
RuleWidth == 80

\* ch * n
Repeat(ch, n) == [i \in 1..n |-> ch]

\* list.insert at the place sorted() gives k among the already sorted ks
RECURSIVE InsertSorted(_, _)
InsertSorted(ks, k) ==
    IF ks = <<>> THEN <<k>>
    ELSE IF StrLess(k, Head(ks)) THEN <<k>> \o ks
    ELSE <<Head(ks)>> \o InsertSorted(Tail(ks), k)

\* sorted(ks)
RECURSIVE sorted(_)
sorted(ks) ==
    IF ks = <<>> THEN <<>>
    ELSE InsertSorted(sorted(SubSeq(ks, 1, Len(ks) - 1)), ks[Len(ks)])

\* dir_stats.keys(): the keys in insertion order
KeyList(stats) == [i \in 1..Len(stats) |-> stats[i].key]

\* iterating dir_stats.keys() without sorted()
SectionOrderAsInserted(stats) == KeyList(stats)

\* the order in which the for loop of format_report visits the keys
SectionOrder(stats) == sorted(KeyList(stats))

\* sum(s[field] for s in dir_stats.values())
RECURSIVE SumFiles(_)
SumFiles(stats) ==
    IF stats = <<>> THEN 0 ELSE Head(stats).files + SumFiles(Tail(stats))

RECURSIVE SumDirs(_)
SumDirs(stats) ==
    IF stats = <<>> THEN 0 ELSE Head(stats).dirs + SumDirs(Tail(stats))

\* the lines "      {item}" for stats["items"][:3]
SampleLinesOf(e) ==
    LET shown == SubSeq(e.items, 1, IF Len(e.items) < 3 THEN Len(e.items) ELSE 3)
    IN  [i \in 1..Len(shown) |-> <<"      ">> \o shown[i]]

\* the lines one iteration of the for loop appends
Section(e) ==
    <<  <<"Directory: ">> \o e.key \o <<"/">>,
        <<"  - Files: ">> \o str(e.files),
        <<"  - Subdirectories: ">> \o str(e.dirs),
        <<"  - Total items: ">> \o str(e.files + e.dirs) >>
    \o (IF e.items # <<>> THEN << <<"  - Sample items:">> >> \o SampleLinesOf(e)
        ELSE <<>>)
    \o << <<>> >>

RECURSIVE Sections(_, _)
Sections(stats, ks) ==
    IF ks = <<>> THEN <<>>
    ELSE Section(stats[IndexOf(stats, Head(ks))]) \o Sections(stats, Tail(ks))

\* "\n".join(lines)
RECURSIVE Join(_)
Join(ls) ==
    IF ls = <<>> THEN <<>>
    ELSE IF Len(ls) = 1 THEN ls[1]
    ELSE ls[1] \o <<"\n">> \o Join(Tail(ls))

ReportLines(stats, source, destination) ==
    LET rule == Repeat("=", RuleWidth)
    IN  << rule,
           <<"FILE LOCATION COMPARISON REPORT">>,
           rule,
           <<"Source:      ">> \o source,
           <<"Destination: ">> \o destination,
           <<>>,
           <<"UNIQUE CONTENT IN SOURCE (Not in destination)">>,
           rule,
           <<>> >>
        \o Sections(stats, SectionOrder(stats))
        \o << rule,
              <<"SUMMARY">>,
              rule,
              <<"Total unique parent directories: ">> \o str(Len(stats)),
              <<"Total unique files: ">> \o str(SumFiles(stats)),
              <<"Total unique subdirectories: ">> \o str(SumDirs(stats)),
              <<"Grand total: ">> \o str(SumFiles(stats) + SumDirs(stats))
                  \o <<" items">>,
              <<>> >>

format_report(stats, source, destination) ==
    Join(ReportLines(stats, source, destination))

(***************************************************************************)
(* Command line, configuration store and files                             *)
(***************************************************************************)
\* An optional value: None is <<>>, a given value v is <<v>>.
None == <<>>

Some(v) == <<v>>

\* truth value of an optional str: None and "" are false
Truthy(o) == o # None /\ o[1] # <<>>

Sources == { None, Some(<<>>), Some(<<"a">>), Some(<<"a", "/">>),
             Some(<<"u", "@", "h", ":", "a">>) }

Destinations == { None, Some(<<>>), Some(<<"b">>), Some(<<"b", "/">>),
                  Some(<<"u", "@", "h", ":", "b">>) }

\* namespaces parse_args can return
Args ==
    [ source : Sources, destination : Destinations,
      output : { None, Some(<<"o">>) },
      set_default : { None, Some(<<"r">>) },
      no_compare : BOOLEAN, quiet : BOOLEAN ]

\* Path.home() / "drive_comparison_report.txt"
DEFAULT_OUTPUT == <<"h", "/", "d">>

\* what CONFIG_FILE can hold before the run: absent, or a stored path
Configs == { None, Some(<<"c">>) }

load_default_output(cfg) == IF cfg # None THEN strip(cfg[1]) ELSE DEFAULT_OUTPUT

\* output_path = args.output or load_default_output()
OutputPath(a, cfg) ==
    IF a.output # None THEN a.output[1] ELSE load_default_output(cfg)

\* the source handed to rsync
NormSource(src) ==
    IF ~endswith(src, <<"/">>) /\ ~contains(src, <<"@">>) THEN src \o <<"/">>
    ELSE src

\* the destination handed to rsync
NormDestination(dst) ==
    IF ~endswith(dst, <<"/">>) THEN dst \o <<"/">> ELSE dst

IsRemote(dst) ==
    startswith(dst, <<"o", "w", "n", "e", "r", "@">>) \/ contains(dst, <<"@">>)

\* what rsync can print: nothing, the usual listing, a listing with a tree root
RsyncOutputs ==
    { <<>>,
      << <<"s", "e", "n", "d", "i", "n", "g", " ", "x">>, <<".", "/">>,
         <<"a", "/">>, <<"a", "/", "x">>, <<"a", "/", "b", "/", "c">>, <<>>,
         <<"s", "e", "n", "t", " ", "1">> >>,
      << <<"r", "s", "y", "n", "c", ":", " ", "e">>,
         <<"r", "s", "y", "n", "c", " ", "e", "r", "r", "o", "r">> >> }

Running == pc \notin {"done", "reading", "returned", "rendered"}

\* the statements of main inside its try block, run_rsync_comparison included
InTry == pc \in {"mktemp", "run", "save", "analyze", "format", "write",
                 "display", "cleanup"}

\* the process ends
Terminate(code, msg, out, unc) ==
    /\ pc' = "done"
    /\ exit_code' = code
    /\ message' = msg
    /\ outcome' = out
    /\ uncaught' = unc

Continue(next) ==
    /\ pc' = next
    /\ UNCHANGED <<exit_code, message, outcome, uncaught>>

(***************************************************************************)
(* main                                                                    *)
(***************************************************************************)
InitMain ==
    /\ args \in Args
    /\ pc = "parse_args"
    /\ exit_code = -1
    /\ uncaught = FALSE
    /\ message = ""
    /\ outcome = "running"
    /\ config \in Configs
    /\ tmp_exists = FALSE
    /\ tmp_created = FALSE
    /\ tmp_content = <<>>
    /\ rsync_cmd = None
    /\ report_file = None
    /\ displayed = FALSE
    /\ f_lines = <<>>
    /\ dir_stats = <<>>
    /\ report = <<>>

\* argparse's parser.error prints the usage and exits with status 2
ParserErrorStatus == 2

\* parser.parse_args(): the command line gives the namespace args, or holds an
\* option or an extra positional the parser rejects with parser.error
parse_args ==
    /\ pc = "parse_args"
    /\ \/ Continue("set_default")
       \/ Terminate(ParserErrorStatus, "usage", "usage", FALSE)
    /\ UNCHANGED <<args, config, tmp_exists, tmp_created, tmp_content, rsync_cmd,
                   report_file, displayed, f_lines, dir_stats, report>>

\* "if args.set_default:" is false
SkipSetDefault ==
    /\ pc = "set_default"
    /\ args.set_default = None
    /\ Continue("validate")
    /\ UNCHANGED <<args, config, tmp_exists, tmp_created, tmp_content, rsync_cmd,
                   report_file, displayed, f_lines, dir_stats, report>>

\* save_default_output(args.set_default), then "if args.no_compare: sys.exit(0)";
\* mkdir or write_text can raise, and nothing encloses the call
save_default_output ==
    /\ pc = "set_default"
    /\ args.set_default # None
    /\ \/ /\ config' = Some(args.set_default[1])
          /\ IF args.no_compare THEN Terminate(0, "", "success", FALSE)
             ELSE Continue("validate")
       \/ /\ config' = config
          /\ Terminate(1, "traceback", "failure", TRUE)
    /\ UNCHANGED <<args, tmp_exists, tmp_created, tmp_content, rsync_cmd,
                   report_file, displayed, f_lines, dir_stats, report>>

\* "Validate required arguments for comparison"
Validate ==
    /\ pc = "validate"
    /\ IF ~args.no_compare /\ (~Truthy(args.source) \/ ~Truthy(args.destination))
       THEN Terminate(ParserErrorStatus, "usage", "usage", FALSE)
       ELSE Continue("normalise")
    /\ UNCHANGED <<args, config, tmp_exists, tmp_created, tmp_content, rsync_cmd,
                   report_file, displayed, f_lines, dir_stats, report>>

\* source.endswith / destination.endswith: AttributeError on None, before the try
Normalise ==
    /\ pc = "normalise"
    /\ IF args.source = None \/ args.destination = None
       THEN Terminate(1, "traceback", "failure", TRUE)
       ELSE Continue("mktemp")
    /\ UNCHANGED <<args, config, tmp_exists, tmp_created, tmp_content, rsync_cmd,
                   report_file, displayed, f_lines, dir_stats, report>>

\* run_rsync_comparison, "with tempfile.NamedTemporaryFile(...)": outside the
\* function's own try, so a failure reaches main's "except Exception"
MkTemp ==
    /\ pc = "mktemp"
    /\ \/ /\ tmp_exists' = TRUE
          /\ tmp_created' = TRUE
          /\ Continue("run")
       \/ /\ UNCHANGED <<tmp_exists, tmp_created>>
          /\ Terminate(1, "Error", "failure", FALSE)
    /\ UNCHANGED <<args, config, tmp_content, rsync_cmd, report_file, displayed,
                   f_lines, dir_stats, report>>

\* run_rsync_comparison, building cmd and subprocess.run; the function's
\* "except Exception" unlinks the temporary file and calls sys.exit(1)
RunRsync ==
    /\ pc = "run"
    /\ \/ \E sshpass \in BOOLEAN :
            /\ rsync_cmd' = Some([sshpass |-> IsRemote(NormDestination(args.destination[1]))
                                                /\ sshpass,
                                  source |-> NormSource(args.source[1]),
                                  destination |-> NormDestination(args.destination[1])])
            /\ UNCHANGED tmp_exists
            /\ Continue("save")
       \/ /\ tmp_exists' = FALSE
          /\ UNCHANGED rsync_cmd
          /\ Terminate(1, "Error running rsync", "failure", FALSE)
    /\ UNCHANGED <<args, config, tmp_created, tmp_content, report_file, displayed,
                   f_lines, dir_stats, report>>

\* run_rsync_comparison, "Save output to temp file" and return
SaveOutput ==
    /\ pc = "save"
    /\ \/ \E out \in RsyncOutputs :
            /\ tmp_content' = out
            /\ UNCHANGED tmp_exists
            /\ Continue("analyze")
       \/ /\ tmp_exists' = FALSE
          /\ UNCHANGED tmp_content
          /\ Terminate(1, "Error running rsync", "failure", FALSE)
    /\ UNCHANGED <<args, config, tmp_created, rsync_cmd, report_file, displayed,
                   f_lines, dir_stats, report>>

\* "Step 2": analyze_rsync_output(rsync_output); open() can raise
Analyze ==
    /\ pc = "analyze"
    /\ \/ /\ f_lines' = tmp_content
          /\ dir_stats' = analyze_rsync_output(tmp_content)
          /\ Continue("format")
       \/ /\ UNCHANGED <<f_lines, dir_stats>>
          /\ Terminate(1, "Error", "failure", FALSE)
    /\ UNCHANGED <<args, config, tmp_exists, tmp_created, tmp_content, rsync_cmd,
                   report_file, displayed, report>>

\* "Step 3": format_report(dir_stats, args.source, args.destination)
Format ==
    /\ pc = "format"
    /\ report' = format_report(dir_stats, args.source[1], args.destination[1])
    /\ Continue("write")
    /\ UNCHANGED <<args, config, tmp_exists, tmp_created, tmp_content, rsync_cmd,
                   report_file, displayed, f_lines, dir_stats>>

\* "Step 4": mkdir and output_path.write_text(report); either can raise
WriteReport ==
    /\ pc = "write"
    /\ \/ /\ report_file' = Some(<<OutputPath(args, config), report>>)
          /\ Continue("display")
       \/ /\ UNCHANGED report_file
          /\ Terminate(1, "Error", "failure", FALSE)
    /\ UNCHANGED <<args, config, tmp_exists, tmp_created, tmp_content, rsync_cmd,
                   displayed, f_lines, dir_stats, report>>

\* the print of the saved path and "Step 5": display the report unless quiet;
\* print can raise (closed pipe, a console that cannot encode the check mark)
Display ==
    /\ pc = "display"
    /\ \/ /\ displayed' = ~args.quiet
          /\ Continue("cleanup")
       \/ /\ UNCHANGED displayed
          /\ Terminate(1, "Error", "failure", FALSE)
    /\ UNCHANGED <<args, config, tmp_exists, tmp_created, tmp_content, rsync_cmd,
                   report_file, f_lines, dir_stats, report>>

\* "Cleanup temp file", the last statement of the try block, then main returns;
\* os.unlink can raise
Cleanup ==
    /\ pc = "cleanup"
    /\ \/ /\ tmp_exists' = FALSE
          /\ Terminate(0, "", "success", FALSE)
       \/ /\ UNCHANGED tmp_exists
          /\ Terminate(1, "Error", "failure", FALSE)
    /\ UNCHANGED <<args, config, tmp_created, tmp_content, rsync_cmd, report_file,
                   displayed, f_lines, dir_stats, report>>

\* main's interrupt handler exiting like its "except Exception" handler
KeyboardInterruptAsFailure ==
    /\ Running
    /\ IF InTry THEN Terminate(1, "cancelled", "interrupted", FALSE)
       ELSE Terminate(130, "traceback", "interrupted", TRUE)
    /\ UNCHANGED <<args, config, tmp_exists, tmp_created, tmp_content, rsync_cmd,
                   report_file, displayed, f_lines, dir_stats, report>>

\* KeyboardInterrupt: inside the try block main's handler exits with 130; before
\* it nothing catches it and the interpreter dies of SIGINT (status 130 to a shell)
KeyboardInterrupt ==
    /\ Running
    /\ IF InTry THEN Terminate(130, "cancelled", "interrupted", FALSE)
       ELSE Terminate(130, "traceback", "interrupted", TRUE)
    /\ UNCHANGED <<args, config, tmp_exists, tmp_created, tmp_content, rsync_cmd,
                   report_file, displayed, f_lines, dir_stats, report>>

NextMain ==
    \/ parse_args
    \/ SkipSetDefault
    \/ save_default_output
    \/ Validate
    \/ Normalise
    \/ MkTemp
    \/ RunRsync
    \/ SaveOutput
    \/ Analyze
    \/ Format
    \/ WriteReport
    \/ Display
    \/ Cleanup
    \/ KeyboardInterrupt

Spec == InitMain /\ [][NextMain]_vars

(***************************************************************************)
(* analyze_rsync_output and format_report on their own: the loop reads a   *)
(* file line by line, the file ends, the result is rendered.               *)
(***************************************************************************)
\* the labels the report is rendered with
ParseArgs ==
    { a \in Args : /\ a.source = Some(<<"a">>)
                   /\ a.destination = Some(<<"b">>)
                   /\ a.output = None /\ a.set_default = None
                   /\ ~a.no_compare /\ ~a.quiet }

InitParse ==
    /\ args \in ParseArgs
    /\ pc = "reading"
    /\ exit_code = -1
    /\ uncaught = FALSE
    /\ message = ""
    /\ outcome = "running"
    /\ config = None
    /\ tmp_exists = TRUE
    /\ tmp_created = TRUE
    /\ tmp_content = <<>>
    /\ rsync_cmd = None
    /\ report_file = None
    /\ displayed = FALSE
    /\ f_lines = <<>>
    /\ dir_stats = <<>>
    /\ report = <<>>

\* one iteration of "for line in f"
ReadLine(l) ==
    /\ pc = "reading"
    /\ f_lines' = Append(f_lines, l)
    /\ dir_stats' = AnalyzeLine(dir_stats, l)
    /\ UNCHANGED <<args, pc, report>>
    /\ UNCHANGED mainVars

\* end of file: "return dir_stats"
ReturnStats ==
    /\ pc = "reading"
    /\ pc' = "returned"
    /\ UNCHANGED <<args, f_lines, dir_stats, report>>
    /\ UNCHANGED mainVars

\* format_report(dir_stats, args.source, args.destination)
Render ==
    /\ pc = "returned"
    /\ report' = format_report(dir_stats, args.source[1], args.destination[1])
    /\ pc' = "rendered"
    /\ UNCHANGED <<args, f_lines, dir_stats>>
    /\ UNCHANGED mainVars

\* every str over the alphabet up to the length bound
GenAlphabet == {"a", "/", "."}

GenLines == UNION { [1..n -> GenAlphabet] : n \in 0..MaxLineLen }

\* longer lines: padded, three levels deep, absolute, status lines, blanks inside
LongLines ==
    { <<" ", "a", "/", "b", " ">>,
      <<"a", "/", "b", "/", "c">>,
      <<"a", "/", "b", "/">>,
      <<"/", "a", "/", "b">>,
      <<"b", " ", "c", "/">>,
      <<" ", "/", " ">>,
      <<"s", "e", "n", "t", "/", "a">>,
      <<"r", "s", "y", "n", "c", ":", " ", "e">>,
      <<"x", " ", "b", "y", "t", "e", "s", "/", "s", "e", "c">> }

NextParse ==
    \/ \E l \in GenLines \cup LongLines : Len(f_lines) < MaxLines /\ ReadLine(l)
    \/ ReturnStats
    \/ Render

SpecParse == InitParse /\ [][NextParse]_vars

\* lines that share a grouping key, and one that does not
SampleLines ==
    { <<"a", "/", "x">>,
      <<"a", "/", "x", "/">>,
      <<" ", "a", "/", "x", "/", "y", " ">>,
      <<"b", "/">> }

NextSamples ==
    \/ \E l \in SampleLines : Len(f_lines) < MaxSampleLines /\ ReadLine(l)
    \/ ReturnStats
    \/ Render

SpecSamples == InitParse /\ [][NextSamples]_vars

\* the lines of the end-to-end scenario
E2EInput ==
    << <<"d", "o", "c", "s", "/">>,
       <<"d", "o", "c", "s", "/", "r", "e", "a", "d", "m", "e", ".", "t", "x", "t">>,
       <<"d", "o", "c", "s", "/", "n", "o", "t", "e", "s", "/", "t", "o", "d", "o",
         ".", "t", "x", "t">>,
       <<"m", "e", "d", "i", "a", "/", "p", "h", "o", "t", "o", ".", "p", "n", "g">>,
       <<"s", "e", "n", "t", " ", "1", "0", "0", " ", "b", "y", "t", "e", "s", " ",
         " ", "r", "e", "c", "e", "i", "v", "e", "d", " ", "2", "0", " ", "b", "y",
         "t", "e", "s", " ", " ", "5", "0", ".", "0", "0", " ", "b", "y", "t", "e",
         "s", "/", "s", "e", "c">> >>

E2ELines == { E2EInput[i] : i \in 1..Len(E2EInput) }

NextE2E ==
    \/ \E l \in E2ELines : Len(f_lines) < MaxE2ELines /\ ReadLine(l)
    \/ ReturnStats
    \/ Render

SpecE2E == InitParse /\ [][NextE2E]_vars

(***************************************************************************)
(* Properties of main                                                      *)
(***************************************************************************)
Terminated == pc = "done"

\* C1: whenever a run that created the temporary file has terminated, on any
\* exit path, the temporary file no longer exists.
TempFileRemovedOnEveryExit == (Terminated /\ tmp_created) => ~tmp_exists

\* C2 as stated: a terminated run exits with 0, 130 or 1; 0 exactly on success,
\* 130 when interrupted, 1 for every other failure, missing arguments included.
ExitStatusZeroOneOr130 ==
    Terminated =>
        /\ exit_code \in {0, 130, 1}
        /\ (exit_code = 0) <=> (outcome = "success")
        /\ (outcome = "interrupted") => (exit_code = 130)
        /\ (outcome \in {"failure", "usage"}) => (exit_code = 1)

\* C2 amended: a terminated run exits with 0, 130, 2 or 1; 0 exactly on success,
\* 130 when interrupted, 2 exactly on a usage error of the argument parser, which
\* a comparison requested without source or destination is, 1 for every other
\* failure.
ExitStatusWithUsageError ==
    Terminated =>
        /\ exit_code \in {0, 130, 2, 1}
        /\ (exit_code = 0) <=> (outcome = "success")
        /\ (outcome = "interrupted") => (exit_code = 130)
        /\ (outcome = "usage") <=> (exit_code = 2)
        /\ (/\ ~args.no_compare
            /\ ~Truthy(args.source) \/ ~Truthy(args.destination)
            /\ outcome \notin {"interrupted", "failure"}) => (exit_code = 2)
        /\ (outcome = "failure") => (exit_code = 1)

\* C2 witness: a run that stored the new default and then ended by the usage error
UsageErrorExit ==
    /\ Terminated /\ outcome = "usage" /\ exit_code = 2
    /\ args.set_default # None /\ config = args.set_default

\* C3: with --no-compare no stage of the pipeline runs: rsync is not started, no
\* temporary file is created and no report file is written.
NoCompareSkipsPipeline ==
    args.no_compare => (rsync_cmd = None /\ ~tmp_created /\ report_file = None)

\* C4: every failure after argument parsing is caught, reported with a message
\* plus cause and turned into exit code 1; none ends the run as an uncaught
\* exception.
EveryFailureCaught ==
    (Terminated /\ outcome = "failure") =>
        /\ ~uncaught
        /\ exit_code = 1
        /\ message \in {"Error", "Error running rsync"}

(***************************************************************************)
(* Properties of analyze_rsync_output and format_report                    *)
(***************************************************************************)
Returned == pc \in {"returned", "rendered"}

EntryOf(stats, k) == stats[IndexOf(stats, k)]

FilesOf(stats, k) == IF k \in Keys(stats) THEN EntryOf(stats, k).files ELSE 0

DirsOf(stats, k) == IF k \in Keys(stats) THEN EntryOf(stats, k).dirs ELSE 0

\* non-empty after trimming and matching no noise pattern
IsEntryLine(raw) == strip(raw) # <<>> /\ ~IsSkipped(strip(raw))

EndsInSlash(raw) == endswith(strip(raw), <<"/">>)

\* the segments of the trimmed line without its trailing separators
Segments(raw) == PathParts(rstrip(strip(raw), "/"))

\* accepted by the parser: an entry line with at least one segment
IsAccepted(raw) == IsEntryLine(raw) /\ Len(Segments(raw)) >= 1

\* the key an accepted line is routed to, from its segments
RoutedKey(raw) ==
    IF Len(Segments(raw)) >= 2 THEN Segments(raw)[1] \o <<"/">> \o Segments(raw)[2]
    ELSE Segments(raw)[1]

Docs == <<"d", "o", "c", "s">>

Media == <<"m", "e", "d", "i", "a">>

\* C5: for the end-to-end input the result has exactly the keys "docs" (2 files,
\* 1 directory, samples docs/, docs/readme.txt, docs/notes/todo.txt) and "media"
\* (1 file, no directory, sample media/photo.png); totals 3 files, 1 directory,
\* 4 items, 2 keys.
E2EAggregation ==
    (Returned /\ f_lines = E2EInput) =>
        /\ Keys(dir_stats) = {Docs, Media}
        /\ Len(dir_stats) = 2
        /\ EntryOf(dir_stats, Docs).files = 2
        /\ EntryOf(dir_stats, Docs).dirs = 1
        /\ EntryOf(dir_stats, Docs).items = <<E2EInput[1], E2EInput[2], E2EInput[3]>>
        /\ EntryOf(dir_stats, Media).files = 1
        /\ EntryOf(dir_stats, Media).dirs = 0
        /\ EntryOf(dir_stats, Media).items = <<E2EInput[4]>>
        /\ SumFiles(dir_stats) = 3
        /\ SumDirs(dir_stats) = 1
        /\ SumFiles(dir_stats) + SumDirs(dir_stats) = 4

\* C6 as stated: the per-key file counts sum to the number of entry lines that do
\* not end in "/", the per-key directory counts to the number that do, lines
\* such as ".", "./" and "/" included.
CountsSumOverEntryLines ==
    /\ SumFiles(dir_stats) =
           Cardinality({ i \in 1..Len(f_lines) :
                           IsEntryLine(f_lines[i]) /\ ~EndsInSlash(f_lines[i]) })
    /\ SumDirs(dir_stats) =
           Cardinality({ i \in 1..Len(f_lines) :
                           IsEntryLine(f_lines[i]) /\ EndsInSlash(f_lines[i]) })

\* C6 amended: the per-key file counts sum to the number of entry lines that have
\* at least one path segment and do not end in "/", the per-key directory counts
\* to the number that have at least one segment and do end in "/"; lines with no
\* segment (".", "./", "/") count for neither.
CountsSumOverAcceptedLines ==
    /\ SumFiles(dir_stats) =
           Cardinality({ i \in 1..Len(f_lines) :
                           IsAccepted(f_lines[i]) /\ ~EndsInSlash(f_lines[i]) })
    /\ SumDirs(dir_stats) =
           Cardinality({ i \in 1..Len(f_lines) :
                           IsAccepted(f_lines[i]) /\ EndsInSlash(f_lines[i]) })

\* C6 witness: a segmentless entry line was read next to a counted file and a
\* counted directory
SegmentlessLineNotCounted ==
    /\ \E i \in 1..Len(f_lines) : IsEntryLine(f_lines[i]) /\ ~IsAccepted(f_lines[i])
    /\ SumFiles(dir_stats) + SumDirs(dir_stats) >= 1
    /\ Len(f_lines) >= 2

RECURSIVE RoutedTo(_, _)
RoutedTo(ls, k) ==
    IF ls = <<>> THEN <<>>
    ELSE IF IsAccepted(Head(ls)) /\ RoutedKey(Head(ls)) = k
         THEN <<strip(Head(ls))>> \o RoutedTo(Tail(ls), k)
         ELSE RoutedTo(Tail(ls), k)

FirstN(sq, n) == SubSeq(sq, 1, IF Len(sq) < n THEN Len(sq) ELSE n)

\* C8: at every point each key's sample list has at most 5 entries and is the
\* first min(5, n) of the n accepted lines routed to that key so far, in input
\* order, each the trimmed line with its trailing "/" kept; a stored sample is
\* never removed or replaced.
SamplesAreFirstFive ==
    /\ [](\A i \in 1..Len(dir_stats) :
            /\ Len(dir_stats[i].items) <= 5
            /\ dir_stats[i].items = FirstN(RoutedTo(f_lines, dir_stats[i].key), 5))
    /\ [][ \A i \in 1..Len(dir_stats) :
              /\ dir_stats'[i].key = dir_stats[i].key
              /\ startswith(dir_stats'[i].items, dir_stats[i].items) ]_vars

\* C8 witness: a key received more than 5 lines, its first and its sixth differ,
\* and one of its stored samples ends in "/"
SampleListFull ==
    \E i \in 1..Len(dir_stats) :
        LET routed == RoutedTo(f_lines, dir_stats[i].key)
        IN  /\ Len(routed) >= 6
            /\ routed[1] # routed[6]
            /\ Len(dir_stats[i].items) = 5
            /\ \E j \in 1..5 : endswith(dir_stats[i].items[j], <<"/">>)

\* the same mapping with its entries inserted in another order
Reordered(stats, perm) == [i \in 1..Len(stats) |-> stats[perm[i]]]

\* the keys of the "Directory: " lines of a report, top to bottom
IsSectionHead(line) == line # <<>> /\ Head(line) = "Directory: "

SectionKeys(stats, source, destination) ==
    LET heads == SelectSeq(ReportLines(stats, source, destination), IsSectionHead)
    IN  [i \in 1..Len(heads) |-> SubSeq(heads[i], 2, Len(heads[i]) - 1)]

\* C9: a result holding the same key-to-stat mapping, built by inserting the keys
\* in any other order and rendered with the same labels, gives the identical
\* report text; the report has one section per key, in ascending key order.
ReportIndependentOfInsertionOrder ==
    (pc = "rendered") =>
        LET src == args.source[1]
            dst == args.destination[1]
            heads == SectionKeys(dir_stats, src, dst)
        IN  /\ \A perm \in Permutations(1..Len(dir_stats)) :
                  format_report(Reordered(dir_stats, perm), src, dst) = report
            /\ Len(heads) = Len(dir_stats)
            /\ { heads[i] : i \in 1..Len(heads) } = Keys(dir_stats)
            /\ \A i \in 1..(Len(heads) - 1) : StrLess(heads[i], heads[i + 1])

\* C9 witness: a report was rendered from keys inserted in descending order
RenderedFromUnsortedKeys ==
    /\ pc = "rendered"
    /\ Len(dir_stats) >= 2
    /\ StrLess(dir_stats[2].key, dir_stats[1].key)
    /\ report # <<>>

\* a line that is only a separator, or whose stripped path has no segment
IsSegmentless(raw) == strip(raw) = <<"/">> \/ Len(Segments(raw)) = 0

\* C10: no key of the result is ever the empty string, and reading a line that is
\* only a separator or has no segment leaves the result unchanged.
NoEmptyKeyEver ==
    /\ [](<<>> \notin Keys(dir_stats))
    /\ [][ (f_lines' # f_lines /\ IsSegmentless(f_lines'[Len(f_lines')]))
             => dir_stats' = dir_stats ]_vars

\* C10 witness: a separator-only line was read after a key had been created
SeparatorLineDiscarded ==
    /\ Len(f_lines) = 2
    /\ dir_stats # <<>>
    /\ strip(f_lines[2]) = <<"/">>

====
